---- MODULE Spec2Model ----
(***************************************************************************)
(* Explicit finite-difference steppers of the 1-D advection-diffusion-     *)
(* reaction notebook (advection_step, diffusion_step, reaction_step,       *)
(* adr_step) and the time loops of simulate_advection, simulate_diffusion, *)
(* simulate_reaction and simulate_adr that drive them.                     *)
(*                                                                         *)
(* Arithmetic.  The notebook computes in IEEE doubles; the model computes  *)
(* in exact real arithmetic on the numbers  q * exp(x)  with q and x       *)
(* rational, so rounding is not modelled and "equal" means equal as real   *)
(* numbers.  A rational is a pair <<n, d>> in lowest terms with d > 0; a   *)
(* number is a record [q |-> rational, x |-> rational] standing for        *)
(* q * exp(x), with x = 0 whenever q = 0.  For rational x # 0 the number   *)
(* exp(x) is transcendental, so two such records denote the same real      *)
(* number exactly when they are equal as records.                          *)
(***************************************************************************)
EXTENDS Integers, Sequences, FiniteSets

(***************************************************************************)
(* Bounds of the model.                                                    *)
(***************************************************************************)
\* fields have 3..MaxN points
MaxN == 4
\* the time loop runs nt = MaxNt steps
MaxNt == 2

(***************************************************************************)
(* Rationals.                                                              *)
(***************************************************************************)
Abs(a) == IF a < 0 THEN -a ELSE a

RECURSIVE GCD(_, _)
GCD(a, b) == IF b = 0 THEN a ELSE GCD(b, a % b)

Q(n, d) ==
  LET g == GCD(Abs(n), Abs(d))
      s == IF d < 0 THEN -1 ELSE 1
  IN  <<(s * n) \div g, (s * d) \div g>>

\* sums and products are formed over the least common denominator
QAdd(a, b) ==
  LET g == GCD(a[2], b[2])
  IN  Q(a[1] * (b[2] \div g) + b[1] * (a[2] \div g), (a[2] \div g) * b[2])
QNeg(a) == <<-a[1], a[2]>>
QSub(a, b) == QAdd(a, QNeg(b))
QMul(a, b) ==
  LET g1 == GCD(Abs(a[1]), b[2])
      g2 == GCD(Abs(b[1]), a[2])
  IN  Q((a[1] \div g1) * (b[1] \div g2), (a[2] \div g2) * (b[2] \div g1))
QInv(a) == IF a[1] < 0 THEN <<-a[2], -a[1]>> ELSE <<a[2], a[1]>>
QDiv(a, b) == QMul(a, QInv(b))
QLe(a, b) == QSub(a, b)[1] <= 0
QLt(a, b) == QSub(a, b)[1] < 0
QZero == <<0, 1>>

(***************************************************************************)
(* Numbers q * exp(x).                                                     *)
(***************************************************************************)
Norm(a) == IF a.q = QZero THEN [q |-> QZero, x |-> QZero] ELSE a
R(n, d) == [q |-> Q(n, d), x |-> QZero]
Zero == R(0, 1)
One == R(1, 1)

\* a * b
Mul(a, b) ==
  IF a.x = QZero /\ b.x = QZero THEN [q |-> QMul(a.q, b.q), x |-> QZero]
  ELSE Norm([q |-> QMul(a.q, b.q), x |-> QAdd(a.x, b.x)])
\* a / b, b # 0
Div(a, b) ==
  IF a.x = QZero /\ b.x = QZero THEN [q |-> QDiv(a.q, b.q), x |-> QZero]
  ELSE Norm([q |-> QDiv(a.q, b.q), x |-> QSub(a.x, b.x)])
\* -a
Neg(a) == [q |-> QNeg(a.q), x |-> a.x]
\* a + b; the sum of two non-zero numbers is formed only when they carry the
\* same exponential factor (no other sum occurs in the program's runs)
Add(a, b) ==
  IF a.q = QZero THEN b
  ELSE IF b.q = QZero THEN a
  ELSE IF a.x = b.x THEN Norm([q |-> QAdd(a.q, b.q), x |-> a.x])
  ELSE CHOOSE r \in {} : TRUE
\* a - b
Sub(a, b) == Add(a, Neg(b))
\* np.exp(a) for a rational a
Exp(a) == IF a.x = QZero THEN [q |-> <<1, 1>>, x |-> a.q] ELSE CHOOSE r \in {} : TRUE

Sign(a) == IF a.q[1] > 0 THEN 1 ELSE IF a.q[1] < 0 THEN -1 ELSE 0

\* a <= b, decided where the order does not need the value of exp:
\* different signs; the same exponential factor; or the same rational factor
Le(a, b) ==
  IF Sign(a) # Sign(b) THEN Sign(a) < Sign(b)
  ELSE IF a.x = b.x THEN QLe(a.q, b.q)
  ELSE IF a.q = b.q THEN (IF Sign(a) > 0 THEN QLe(a.x, b.x) ELSE QLe(b.x, a.x))
  ELSE CHOOSE r \in {} : TRUE
Lt(a, b) == Le(a, b) /\ a # b

(***************************************************************************)
(* Fields: a field of N points is a function 0..N-1 -> number, indexed as  *)
(* the numpy array it models.                                              *)
(***************************************************************************)
len(C) == Cardinality(DOMAIN C)
zeros_like(C) == [i \in DOMAIN C |-> Zero]
\* dx**2
Sq(a) == Mul(a, a)
Two == R(2, 1)

(***************************************************************************)
(* advection_step(C, U, dx, dt): first-order upwind step.                  *)
(***************************************************************************)
\* mutant of advection_loop: the loop stops one point short, range(1, n-1)
RECURSIVE advection_loop_short(_, _, _, _, _, _)
advection_loop_short(C_new, i, C, U_, dx_, dt_) ==
  IF i >= len(C) - 1 THEN C_new
  ELSE advection_loop_short(
         [C_new EXCEPT ![i] = Sub(C[i], Mul(Mul(U_, Div(dt_, dx_)), Sub(C[i], C[i-1])))],
         i + 1, C, U_, dx_, dt_)

\* mutant of advection_loop: downwind difference C[i] - C[i-1] taken with
\* the wrong sign
RECURSIVE advection_loop_sign(_, _, _, _, _, _)
advection_loop_sign(C_new, i, C, U_, dx_, dt_) ==
  IF i >= len(C) THEN C_new
  ELSE advection_loop_sign(
         [C_new EXCEPT ![i] = Add(C[i], Mul(Mul(U_, Div(dt_, dx_)), Sub(C[i], C[i-1])))],
         i + 1, C, U_, dx_, dt_)

\* for i in range(1, n): C_new[i] = C[i] - U * (dt/dx) * (C[i] - C[i-1])
RECURSIVE advection_loop(_, _, _, _, _, _)
advection_loop(C_new, i, C, U_, dx_, dt_) ==
  IF i >= len(C) THEN C_new
  ELSE advection_loop(
         [C_new EXCEPT ![i] = Sub(C[i], Mul(Mul(U_, Div(dt_, dx_)), Sub(C[i], C[i-1])))],
         i + 1, C, U_, dx_, dt_)

\* mutant of advection_step: the boundary value C_new[0] = C[0] is not set
advection_step_no_inflow(C, U_, dx_, dt_) ==
  advection_loop(zeros_like(C), 1, C, U_, dx_, dt_)

advection_step(C, U_, dx_, dt_) ==
  LET C_new == advection_loop(zeros_like(C), 1, C, U_, dx_, dt_)
  IN  [C_new EXCEPT ![0] = C[0]]

(***************************************************************************)
(* diffusion_step(C, D, dx, dt): explicit central differences with         *)
(* one-sided updates at both ends.                                         *)
(***************************************************************************)
\* mutant of diffusion_loop: dt/dx in place of dt/dx**2
RECURSIVE diffusion_loop_dx(_, _, _, _, _, _)
diffusion_loop_dx(C_new, i, C, D_, dx_, dt_) ==
  IF i >= len(C) - 1 THEN C_new
  ELSE diffusion_loop_dx(
         [C_new EXCEPT ![i] =
            Add(C[i], Mul(Mul(D_, Div(dt_, dx_)),
                          Add(Sub(C[i+1], Mul(Two, C[i])), C[i-1])))],
         i + 1, C, D_, dx_, dt_)

\* for i in range(1, n-1):
\*     C_new[i] = C[i] + D * (dt/dx**2) * (C[i+1] - 2*C[i] + C[i-1])
RECURSIVE diffusion_loop(_, _, _, _, _, _)
diffusion_loop(C_new, i, C, D_, dx_, dt_) ==
  IF i >= len(C) - 1 THEN C_new
  ELSE diffusion_loop(
         [C_new EXCEPT ![i] =
            Add(C[i], Mul(Mul(D_, Div(dt_, Sq(dx_))),
                          Add(Sub(C[i+1], Mul(Two, C[i])), C[i-1])))],
         i + 1, C, D_, dx_, dt_)

\* mutant of diffusion_step: the right boundary copies the left one's
\* difference, C[n-1] - C[n-2], instead of its mirror image
diffusion_step_right(C, D_, dx_, dt_) ==
  LET n == len(C)
      C_new == diffusion_loop(zeros_like(C), 1, C, D_, dx_, dt_)
      left == Add(C[0], Mul(Mul(D_, Div(dt_, Sq(dx_))), Sub(C[1], C[0])))
      right == Add(C[n-1], Mul(Mul(D_, Div(dt_, Sq(dx_))), Sub(C[n-1], C[n-2])))
  IN  [[C_new EXCEPT ![0] = left] EXCEPT ![n-1] = right]

\* mutant of diffusion_step: the two boundary updates are left out
diffusion_step_no_boundary(C, D_, dx_, dt_) ==
  diffusion_loop(zeros_like(C), 1, C, D_, dx_, dt_)

diffusion_step(C, D_, dx_, dt_) ==
  LET n == len(C)
      C_new == diffusion_loop(zeros_like(C), 1, C, D_, dx_, dt_)
      left == Add(C[0], Mul(Mul(D_, Div(dt_, Sq(dx_))), Sub(C[1], C[0])))
      right == Add(C[n-1], Mul(Mul(D_, Div(dt_, Sq(dx_))), Sub(C[n-2], C[n-1])))
  IN  [[C_new EXCEPT ![0] = left] EXCEPT ![n-1] = right]

(***************************************************************************)
(* reaction_step(C, k, dt): C * np.exp(-k * dt), at every point.           *)
(***************************************************************************)
\* mutant of reaction_step: explicit Euler factor 1 - k*dt in place of
\* exp(-k*dt)
reaction_step_euler(C, k_, dt_) ==
  [i \in DOMAIN C |-> Mul(C[i], Sub(One, Mul(k_, dt_)))]

reaction_step(C, k_, dt_) ==
  [i \in DOMAIN C |-> Mul(C[i], Exp(Mul(Neg(k_), dt_)))]

(***************************************************************************)
(* adr_step(C, U, D, k, dx, dt): the three terms added in one explicit     *)
(* step at the interior points, fixed value at x=0, copy of the            *)
(* neighbour's old value at x=L.                                           *)
(***************************************************************************)
\* mutant of adr_loop: central difference (C[i+1] - C[i-1])/2 in the
\* advective term
RECURSIVE adr_loop_central(_, _, _, _, _, _, _, _)
adr_loop_central(C_new, i, C, U_, D_, k_, dx_, dt_) ==
  IF i >= len(C) - 1 THEN C_new
  ELSE LET advection == Mul(Mul(Neg(U_), Div(dt_, dx_)),
                            Div(Sub(C[i+1], C[i-1]), Two))
           diffusion == Mul(Mul(D_, Div(dt_, Sq(dx_))),
                            Add(Sub(C[i+1], Mul(Two, C[i])), C[i-1]))
           reaction == Mul(Mul(Neg(k_), dt_), C[i])
       IN  adr_loop_central(
             [C_new EXCEPT ![i] = Add(Add(Add(C[i], advection), diffusion), reaction)],
             i + 1, C, U_, D_, k_, dx_, dt_)

RECURSIVE adr_loop(_, _, _, _, _, _, _, _)
adr_loop(C_new, i, C, U_, D_, k_, dx_, dt_) ==
  IF i >= len(C) - 1 THEN C_new
  ELSE LET advection == Mul(Mul(Neg(U_), Div(dt_, dx_)), Sub(C[i], C[i-1]))
           diffusion == Mul(Mul(D_, Div(dt_, Sq(dx_))),
                            Add(Sub(C[i+1], Mul(Two, C[i])), C[i-1]))
           reaction == Mul(Mul(Neg(k_), dt_), C[i])
       IN  adr_loop(
             [C_new EXCEPT ![i] = Add(Add(Add(C[i], advection), diffusion), reaction)],
             i + 1, C, U_, D_, k_, dx_, dt_)

\* mutant of adr_step: the outflow point copies the new neighbour value
\* C_new[n-2] instead of the old C[n-2]
adr_step_new_outflow(C, U_, D_, k_, dx_, dt_) ==
  LET n == len(C)
      C_new == adr_loop(zeros_like(C), 1, C, U_, D_, k_, dx_, dt_)
  IN  [[C_new EXCEPT ![0] = C[0]] EXCEPT ![n-1] = C_new[n-2]]

adr_step(C, U_, D_, k_, dx_, dt_) ==
  LET n == len(C)
      C_new == adr_loop(zeros_like(C), 1, C, U_, D_, k_, dx_, dt_)
  IN  [[C_new EXCEPT ![0] = C[0]] EXCEPT ![n-1] = C[n-2]]

(***************************************************************************)
(* Initial condition.  C_initial = np.exp(-0.5 * ((x - mu) / sigma) ** 2)  *)
(* sampled on a uniform grid x_i = i*h is  exp(-b * (i - c)^2)  with       *)
(* c = mu/h and b = h^2 / (2 sigma^2).  gaussian_pulse(n, c2) is that      *)
(* sample for the centre c = c2/2 (a grid point when c2 is even, the       *)
(* midpoint of two grid points when c2 is odd) and a width that makes      *)
(* every sample rational:                                                  *)
(*   c2 even: b = ln 2,     C[i] = 2^-((i-c)^2);                           *)
(*   c2 odd:  b = (ln 2)/2, C[i] = a * 2^-(((2i-c2)^2 - 1)/8), the pulse   *)
(*            scaled by the amplitude a = 2^(1/8).                         *)
(***************************************************************************)
RECURSIVE Pow2(_)
Pow2(e) == IF e = 0 THEN 1 ELSE 2 * Pow2(e - 1)

gaussian_pulse(n, c2) ==
  [i \in 0..(n-1) |->
     IF c2 % 2 = 0
     THEN R(1, Pow2(((2*i - c2) * (2*i - c2)) \div 4))
     ELSE R(1, Pow2(((2*i - c2) * (2*i - c2) - 1) \div 8))]

\* the centre mu lies in the domain [x_0, x_(nx-1)]
GaussianFields(nx) == {gaussian_pulse(nx, c2) : c2 \in 0..(2 * (nx - 1))}

\* arbitrary non-negative fields: 0 or 1 at every point (every field is a
\* linear combination of these, and the steppers are linear in C)
GridFields(nx) == [0..(nx-1) -> {Zero, One}]

\* np.linspace(a, b, n): n points from a to b, both included
linspace(a, b, n) == [i \in 0..(n-1) |-> Add(a, Mul(R(i, 1), Div(Sub(b, a), R(n - 1, 1))))]

(***************************************************************************)
(* Inputs of the steppers.  The notebook's simulate_* functions fix their  *)
(* parameters (L = 100, nx = 200, U = 1, D = 2, k = 0.05, ...); the model  *)
(* draws them from these sets, scaled down, so that stable and unstable    *)
(* steps, both signs of U and the limits U*dt/dx = 1 and D*dt/dx^2 = 0.5   *)
(* all occur.                                                              *)
(***************************************************************************)
USet == {R(-1, 1), Zero, One}
DSet == {Zero, One}
KSet == {Zero, One, Two}
\* the domain length L is nx times one of these, so that dx = L / nx is one of them
SpacingSet == {R(1, 2), One}
DtSet == {R(1, 4), R(1, 2)}

(***************************************************************************)
(* The time step of each simulate_* function.  U and D are Python floats,  *)
(* so a division by 0.0 raises ZeroDivisionError: the *_dt_raises          *)
(* operators say when the line raises, the *_dt operators give its value   *)
(* when it does not.                                                       *)
(***************************************************************************)
\* min(a, b)
min(a, b) == IF Lt(b, a) THEN b ELSE a

\* mutant of advection_dt: the factor 0.5 is left out, dt = dx / U
advection_dt_full(dx_, U_) == Div(dx_, U_)

\* simulate_advection: dt = 0.5 * dx / U
advection_dt(dx_, U_) == Div(Mul(R(1, 2), dx_), U_)
advection_dt_raises(U_) == U_ = Zero

\* simulate_diffusion: dt = 0.25 * dx**2 / D
diffusion_dt(dx_, D_) == Div(Mul(R(1, 4), Sq(dx_)), D_)
diffusion_dt_raises(D_) == D_ = Zero

\* simulate_reaction: dt = 1.0
reaction_dt == One

\* mutant of adr_dt: the diffusive bound is left out, dt = 0.25 * dx/U
adr_dt_advective(dx_, U_, D_) == Mul(R(1, 4), Div(dx_, U_))

\* simulate_adr: dt = 0.25 * min(dx/U, dx**2/(2*D))
adr_dt(dx_, U_, D_) == Mul(R(1, 4), min(Div(dx_, U_), Div(Sq(dx_), Mul(Two, D_))))
adr_dt_raises(U_, D_) == U_ = Zero \/ Mul(Two, D_) = Zero

\* the inputs of a run that forms its own time step
RunUSet == {R(-1, 1), Zero, One}
RunDSet == {Zero, One, Two}
RunKSet == {Zero, One}
\* L is nx times one of these: dx = L / nx is one of them (negative when L < 0)
RunSpacingSet == {R(-1, 1), R(1, 2), One}
\* sigma, in units of its absolute value: the pulse depends on sigma through
\* ((x - mu) / sigma) ** 2 only
SigmaSet == {R(-1, 1), One}
\* the pulses of a run: the centre mu within half a grid spacing of the
\* middle of the domain (the notebook's pulses lie well inside the domain)
RunGaussianFields(n) == {gaussian_pulse(n, c2) : c2 \in (n - 2)..n}
\* a local variable that has not been assigned
NoValue == [q |-> <<0, 0>>, x |-> <<0, 0>>]

VARIABLES
  sim,        \* which simulate_* function runs
  L,          \* length of the domain
  U, D, k,    \* velocity, diffusion coefficient, decay rate
  dx, dt,     \* grid spacing, time step
  nt,         \* number of time steps
  stride,     \* a snapshot is taken every stride steps
  C_initial,  \* the initial field
  C,          \* the current field
  C_old,      \* the field handed to the last stepper call
  t,          \* the loop variable: number of steps taken
  results,    \* the snapshots
  times,      \* the snapshot times
  sigma,      \* width of the initial pulse
  time,       \* the time at which a closed-form solution is evaluated
  pc          \* "loop": the setup is done; "ZeroDivisionError": the setup raised

vars == <<sim, L, U, D, k, dx, dt, nt, stride, C_initial, C, C_old, t, results, times, sigma, time, pc>>

\* nx, the number of grid points
nx == len(C_initial)
\* x = np.linspace(0, L, nx)
x == linspace(Zero, L, nx)

\* The state at the head of the time loop.  Every step is sampled
\* (stride = 1; the notebook samples every 10, 40, 20 or 100 steps).
Init ==
  /\ sim \in {"advection", "diffusion", "reaction", "adr"}
  /\ \E n \in 3..MaxN :
       /\ L \in {Mul(R(n, 1), h) : h \in SpacingSet}
       /\ dx = Div(L, R(n, 1))
       /\ C_initial \in GridFields(n) \cup GaussianFields(n)
  /\ U \in (IF sim \in {"advection", "adr"} THEN USet ELSE {Zero})
  /\ D \in (IF sim \in {"diffusion", "adr"} THEN DSet ELSE {Zero})
  /\ k \in (IF sim \in {"reaction", "adr"} THEN KSet ELSE {Zero})
  /\ dt \in DtSet
  /\ nt = MaxNt
  /\ stride = 1
  /\ C = C_initial
  /\ C_old = C_initial
  /\ t = 0
  /\ results = <<C_initial>>
  /\ times = <<Zero>>
  /\ sigma = One
  /\ time = NoValue
  /\ pc = "loop"

(***************************************************************************)
(* The setup of a simulate_* function that forms dt itself:                *)
(*     dx = L / nx;  dt = ...;  x = np.linspace(0, L, nx)                  *)
(*     C_initial = np.exp(-0.5 * ((x - mu) / sigma) ** 2)                  *)
(*     results = [C_initial.copy()];  times = [0];  C = C_initial.copy()   *)
(* No line of it inspects L, nx or sigma.  When the dt line raises, the    *)
(* function ends there: dt and everything after it are never assigned.     *)
(***************************************************************************)
InitRun ==
  /\ sim \in {"advection", "diffusion", "reaction", "adr"}
  /\ U \in (IF sim \in {"advection", "adr"} THEN RunUSet ELSE {Zero})
  /\ D \in (IF sim \in {"diffusion", "adr"} THEN RunDSet ELSE {Zero})
  /\ k \in (IF sim \in {"reaction", "adr"} THEN RunKSet ELSE {Zero})
  /\ sigma \in SigmaSet
  /\ time = NoValue
  /\ nt \in 1..MaxNt
  /\ stride \in 1..MaxNt
  /\ t = 0
  /\ \E n \in 2..MaxN :
       /\ L \in {Mul(R(n, 1), h) : h \in RunSpacingSet}
       /\ dx = Div(L, R(n, 1))
       /\ IF \/ sim = "advection" /\ advection_dt_raises(U)
             \/ sim = "diffusion" /\ diffusion_dt_raises(D)
             \/ sim = "adr" /\ adr_dt_raises(U, D)
          THEN /\ pc = "ZeroDivisionError"
               /\ dt = NoValue
               /\ C_initial = <<>>
               /\ C = <<>>
               /\ C_old = <<>>
               /\ results = <<>>
               /\ times = <<>>
          ELSE /\ pc = "loop"
               /\ dt = CASE sim = "advection" -> advection_dt(dx, U)
                          [] sim = "diffusion" -> diffusion_dt(dx, D)
                          [] sim = "reaction" -> reaction_dt
                          [] sim = "adr" -> adr_dt(dx, U, D)
               /\ C_initial \in RunGaussianFields(n)
               /\ C = C_initial
               /\ C_old = C_initial
               /\ results = <<C_initial>>
               /\ times = <<Zero>>

(***************************************************************************)
(* One iteration of the time loop  for t in range(1, nt+1):                *)
(*     C = step(C, ...)                                                    *)
(*     if t % stride == 0 or t == nt:                                      *)
(*         results.append(C.copy()); times.append(t * dt)                  *)
(***************************************************************************)
\* mutant of Iterate: the loop is  for t in range(1, nt + 2), one step more
Iterate_over(C_next) ==
  /\ pc = "loop"
  /\ t <= nt
  /\ t' = t + 1
  /\ C_old' = C
  /\ C' = C_next
  /\ IF (t + 1) % stride = 0 \/ t + 1 = nt
     THEN /\ results' = Append(results, C_next)
          /\ times' = Append(times, Mul(R(t + 1, 1), dt))
     ELSE UNCHANGED <<results, times>>
  /\ UNCHANGED <<sim, L, U, D, k, dx, dt, nt, stride, C_initial, sigma, time, pc>>

\* mutant of Iterate: the snapshot is appended before the stepper is called,
\* so that it holds the field of the step before
Iterate_stale(C_next) ==
  /\ pc = "loop"
  /\ t < nt
  /\ t' = t + 1
  /\ C_old' = C
  /\ C' = C_next
  /\ IF (t + 1) % stride = 0 \/ t + 1 = nt
     THEN /\ results' = Append(results, C)
          /\ times' = Append(times, Mul(R(t + 1, 1), dt))
     ELSE UNCHANGED <<results, times>>
  /\ UNCHANGED <<sim, L, U, D, k, dx, dt, nt, stride, C_initial, sigma, time, pc>>

\* mutant of Iterate: the snapshot test is  t % stride == 0  alone, without
\* "or t == nt"
Iterate_no_final(C_next) ==
  /\ pc = "loop"
  /\ t < nt
  /\ t' = t + 1
  /\ C_old' = C
  /\ C' = C_next
  /\ IF (t + 1) % stride = 0
     THEN /\ results' = Append(results, C_next)
          /\ times' = Append(times, Mul(R(t + 1, 1), dt))
     ELSE UNCHANGED <<results, times>>
  /\ UNCHANGED <<sim, L, U, D, k, dx, dt, nt, stride, C_initial, sigma, time, pc>>

Iterate(C_next) ==
  /\ pc = "loop"
  /\ t < nt
  /\ t' = t + 1
  /\ C_old' = C
  /\ C' = C_next
  /\ IF (t + 1) % stride = 0 \/ t + 1 = nt
     THEN /\ results' = Append(results, C_next)
          /\ times' = Append(times, Mul(R(t + 1, 1), dt))
     ELSE UNCHANGED <<results, times>>
  /\ UNCHANGED <<sim, L, U, D, k, dx, dt, nt, stride, C_initial, sigma, time, pc>>

simulate_advection == sim = "advection" /\ Iterate(advection_step(C, U, dx, dt))
simulate_diffusion == sim = "diffusion" /\ Iterate(diffusion_step(C, D, dx, dt))
simulate_reaction == sim = "reaction" /\ Iterate(reaction_step(C, k, dt))
simulate_adr == sim = "adr" /\ Iterate(adr_step(C, U, D, k, dx, dt))

Next ==
  \/ simulate_advection
  \/ simulate_diffusion
  \/ simulate_reaction
  \/ simulate_adr

Spec == Init /\ [][Next]_vars

\* the runs of the simulate_* functions from their first line
SpecRun == InitRun /\ [][Next]_vars

(***************************************************************************)
(* The closed-form solutions the notebook plots.  np.sqrt is taken of      *)
(* rational squares only, so that every value is a rational times the      *)
(* exponential of a rational.                                              *)
(***************************************************************************)
IsSquareInt(m) == \E r \in 0..m : r * r = m
ISqrt(m) == CHOOSE r \in 0..m : r * r = m
\* a is the square of a rational
IsSquare(a) == a.x = QZero /\ a.q[1] >= 0 /\ IsSquareInt(a.q[1]) /\ IsSquareInt(a.q[2])
\* np.sqrt(a)
sqrt(a) == R(ISqrt(a.q[1]), ISqrt(a.q[2]))

\* np.exp(-0.5 * ((x - mu) / sigma) ** 2)
gaussian(xs, mu, sg) ==
  [i \in DOMAIN xs |-> Exp(Mul(R(-1, 2), Sq(Div(Sub(xs[i], mu), sg))))]

\* advection_multiple_cases:
\*   mu_t = mu_0 + velocity * time
\*   C_t = np.exp(-0.5 * ((x - mu_t) / sigma) ** 2)
advection_C_t(xs, mu0, sg, velocity, tm) ==
  LET mu_t == Add(mu0, Mul(velocity, tm))
  IN  gaussian(xs, mu_t, sg)

\* diffusion_multiple_cases:
\*   sigma_t = np.sqrt(sigma_0**2 + 2 * diffusion * time)
\*   amplitude = sigma_0 / sigma_t
\*   C_t = amplitude * np.exp(-0.5 * ((x - mu) / sigma_t) ** 2)
diffusion_C_t(xs, mu, sigma0, diffusion, tm) ==
  LET sigma_t == sqrt(Add(Sq(sigma0), Mul(Mul(Two, diffusion), tm)))
      amplitude == Div(sigma0, sigma_t)
      G == gaussian(xs, mu, sigma_t)
  IN  [i \in DOMAIN xs |-> Mul(amplitude, G[i])]

\* reaction_multiple_cases:  C_t = C_0 * np.exp(-k * fixed_time)
reaction_C_t(C_0, k_, tm) ==
  [i \in DOMAIN C_0 |-> Mul(C_0[i], Exp(Mul(Neg(k_), tm)))]

\* mutant of adr_C_t: the amplitude is sigma_0 / sigma_t, without the decay
\* factor np.exp(-reaction * time)
adr_C_t_no_decay(xs, mu0, sigma0, velocity, diffusion, reaction, tm) ==
  LET mu_t == Add(mu0, Mul(velocity, tm))
      sigma_t == sqrt(Add(Sq(sigma0), Mul(Mul(Two, diffusion), tm)))
      amplitude == Div(sigma0, sigma_t)
      G == gaussian(xs, mu_t, sigma_t)
  IN  [i \in DOMAIN xs |-> Mul(amplitude, G[i])]

\* adr_interactive:
\*   mu_t = mu_0 + velocity * time
\*   sigma_t = np.sqrt(sigma_0**2 + 2 * diffusion * time)
\*   amplitude = (sigma_0 / sigma_t) * np.exp(-reaction * time)
\*   C_t = amplitude * np.exp(-0.5 * ((x - mu_t) / sigma_t) ** 2)
adr_C_t(xs, mu0, sigma0, velocity, diffusion, reaction, tm) ==
  LET mu_t == Add(mu0, Mul(velocity, tm))
      sigma_t == sqrt(Add(Sq(sigma0), Mul(Mul(Two, diffusion), tm)))
      amplitude == Mul(Div(sigma0, sigma_t), Exp(Mul(Neg(reaction), tm)))
      G == gaussian(xs, mu_t, sigma_t)
  IN  [i \in DOMAIN xs |-> Mul(amplitude, G[i])]

\* adr_interactive's L, sigma_0 and mu_0
L_interactive == R(100, 1)
sigma_0 == R(5, 1)
mu_0 == R(20, 1)
\* the arguments of adr_interactive: the sliders' values and the zeros at
\* which a process is switched off
VelocitySet == {Zero, R(1, 2), One}
DiffusionSet == {Zero, One, Two}
ReactionSet == {Zero, R(1, 50), R(1, 20)}
TimeSet == {Zero, R(6, 1), R(12, 1), R(36, 1), R(72, 1)}

\* before the first call of adr_interactive
InitApprox ==
  /\ sim = "adr_interactive"
  /\ pc = "interact"
  /\ L = NoValue /\ U = NoValue /\ D = NoValue /\ k = NoValue
  /\ dx = NoValue /\ dt = NoValue /\ sigma = NoValue /\ time = NoValue
  /\ nt = 0 /\ stride = 0 /\ t = 0
  /\ C_initial = <<>> /\ C = <<>> /\ C_old = <<>>
  /\ results = <<>> /\ times = <<>>

\* one call adr_interactive(velocity, diffusion, reaction, time); the grid
\* has n points instead of the function's nx = 200
adr_interactive ==
  /\ sim = "adr_interactive"
  /\ \E velocity \in VelocitySet, diffusion \in DiffusionSet,
        reaction \in ReactionSet, tm \in TimeSet, n \in 3..MaxN :
       /\ IsSquare(Add(Sq(sigma_0), Mul(Mul(Two, diffusion), tm)))
       /\ LET xs == linspace(Zero, L_interactive, n)
          IN  /\ C_initial' = gaussian(xs, mu_0, sigma_0)
              /\ C' = adr_C_t(xs, mu_0, sigma_0, velocity, diffusion, reaction, tm)
       /\ L' = L_interactive
       /\ sigma' = sigma_0
       /\ U' = velocity
       /\ D' = diffusion
       /\ k' = reaction
       /\ time' = tm
  /\ pc' = "plotted"
  /\ UNCHANGED <<sim, dx, dt, nt, stride, C_old, t, results, times>>

SpecApprox == InitApprox /\ [][adr_interactive]_vars

(***************************************************************************)
(* Quantities the properties are stated with.                              *)
(***************************************************************************)
Interior(F) == 1..(len(F) - 2)
Last(F) == len(F) - 1

RECURSIVE SumTo(_, _)
SumTo(F, i) == IF i < 0 THEN Zero ELSE Add(SumTo(F, i - 1), F[i])
\* sum(C)
Sum(F) == SumTo(F, Last(F))
\* total mass M = dx * sum(C)
Mass(F) == Mul(dx, Sum(F))

\* grid points spaced dx apart, x_i = i * dx
GridDx(F) == [i \in DOMAIN F |-> Mul(R(i, 1), dx)]
\* sum(X_i * C[i])
Moment(F, X) == Sum([i \in DOMAIN F |-> Mul(X[i], F[i])])
\* centre of mass sum(X_i * C[i]) / sum(C[i]), for sum(C) # 0
CentreOfMass(F, X) == Div(Moment(F, X), Sum(F))

RECURSIVE MaxTo(_, _)
MaxTo(F, i) ==
  IF i = 0 THEN F[0]
  ELSE LET m == MaxTo(F, i - 1) IN IF Le(F[i], m) THEN m ELSE F[i]
\* max(C)
Max(F) == MaxTo(F, Last(F))

NonNegative(F) == \A i \in DOMAIN F : Le(Zero, F[i])

\* Courant number U*dt/dx and diffusion number D*dt/dx^2
Courant == Mul(U, Div(dt, dx))
DiffusionNumber == Mul(D, Div(dt, Sq(dx)))
Half == R(1, 2)

Stepped == t >= 1

(***************************************************************************)
(* C1.  The combined step against the isolated steps on interior points.   *)
(***************************************************************************)
\* C1 as claimed: on the interior points 1..N-2, adr_step(C,U,0,0) equals
\* advection_step(C,U), adr_step(C,0,D,0) equals diffusion_step(C,D) and
\* adr_step(C,0,0,k) equals reaction_step(C,k).
C1_AsClaimed ==
  LET adr_U == adr_step(C, U, Zero, Zero, dx, dt)
      adr_D == adr_step(C, Zero, D, Zero, dx, dt)
      adr_k == adr_step(C, Zero, Zero, k, dx, dt)
      adv == advection_step(C, U, dx, dt)
      dif == diffusion_step(C, D, dx, dt)
      rea == reaction_step(C, k, dt)
  IN  \A i \in Interior(C) :
        adr_U[i] = adv[i] /\ adr_D[i] = dif[i] /\ adr_k[i] = rea[i]

\* C1 amended: on the interior points adr_step(C,U,0,0) equals
\* advection_step(C,U) and adr_step(C,0,D,0) equals diffusion_step(C,D);
\* adr_step(C,0,0,k) is C[i]*(1 - k*dt), the first-order approximation of
\* reaction_step's C[i]*exp(-k*dt), and the two agree at point i exactly
\* when k = 0 or C[i] = 0.
C1_Reduction ==
  LET adr_U == adr_step(C, U, Zero, Zero, dx, dt)
      adr_D == adr_step(C, Zero, D, Zero, dx, dt)
      adr_k == adr_step(C, Zero, Zero, k, dx, dt)
      adv == advection_step(C, U, dx, dt)
      dif == diffusion_step(C, D, dx, dt)
      rea == reaction_step(C, k, dt)
  IN  \A i \in Interior(C) :
        /\ adr_U[i] = adv[i]
        /\ adr_D[i] = dif[i]
        /\ adr_k[i] = Mul(C[i], Sub(One, Mul(k, dt)))
        /\ (adr_k[i] = rea[i]) <=> (k = Zero \/ C[i] = Zero)

\* a combined run with all three processes active has stepped a field whose
\* interior points the step changes
C1_Witness ==
  /\ sim = "adr" /\ Stepped
  /\ U # Zero /\ D # Zero /\ k # Zero
  /\ \E i \in Interior(C) :
       /\ C[i] # Zero
       /\ advection_step(C, U, dx, dt)[i] # C[i]
       /\ diffusion_step(C, D, dx, dt)[i] # C[i]

(***************************************************************************)
(* C2.  Mass under the advection step.                                     *)
(***************************************************************************)
AdvectionStepped == sim = "advection" /\ Stepped /\ Lt(Zero, U)

DiffusionStepped == sim = "diffusion" /\ Stepped /\ Lt(Zero, D)

\* C4: for D > 0 the diffusion step, its two one-sided boundary updates
\* included, leaves dx*sum(C) unchanged, so the mass after any number of
\* steps is the mass of the initial field.
C4_DiffusionMass ==
  DiffusionStepped => Mass(C) = Mass(C_old) /\ Mass(C) = Mass(C_initial)

\* the diffusion loop has run to its end on a field it changes at every step
C4_Witness ==
  /\ DiffusionStepped /\ t = nt
  /\ C # C_old /\ C_old # C_initial
  /\ C[0] # C_old[0] /\ C[Last(C)] # C_old[Last(C)]

(***************************************************************************)
(* C5.  Maximum under the diffusion step.                                  *)
(***************************************************************************)
GaussianStart == C_initial \in GaussianFields(nx)
DiffusionStable == Le(Zero, DiffusionNumber) /\ Le(DiffusionNumber, Half)

\* C5 as claimed: starting from a Gaussian pulse with D > 0 and
\* D*dt/dx^2 <= 0.5, max(C) after every diffusion step is strictly smaller
\* than max(C) before that step.
C5_AsClaimed ==
  (DiffusionStepped /\ GaussianStart /\ DiffusionStable) =>
    Lt(Max(C), Max(C_old))

\* the maximum m of F is held by an end point and its neighbour, or by both
\* neighbours of an interior point that holds it too or is replaced by their
\* mean (D*dt/dx^2 = 0.5)
MaxIsKept(F) ==
  LET m == Max(F)
      n == len(F)
  IN  \/ F[0] = m /\ F[1] = m
      \/ F[n-1] = m /\ F[n-2] = m
      \/ \E i \in Interior(F) :
           F[i-1] = m /\ F[i+1] = m /\ (F[i] = m \/ DiffusionNumber = Half)

\* C5 amended: starting from a Gaussian pulse with D > 0 and
\* D*dt/dx^2 <= 0.5, max(C) after every diffusion step is never larger than
\* before the step; it is unchanged when, before the step, the maximum is
\* held by an end point and its neighbour (C[0] = C[1] or C[N-2] = C[N-1],
\* as for a pulse centred midway between the first two grid points) or by
\* both neighbours of an interior point that holds it too or has
\* D*dt/dx^2 = 0.5, and strictly smaller in every other case.
C5_MaxNonIncreasing ==
  (DiffusionStepped /\ GaussianStart /\ DiffusionStable) =>
    /\ Le(Max(C), Max(C_old))
    /\ (Max(C) = Max(C_old)) <=> MaxIsKept(C_old)

\* a diffusion step has strictly lowered the peak of a Gaussian pulse
C5_Witness ==
  /\ DiffusionStepped /\ GaussianStart /\ DiffusionStable
  /\ ~MaxIsKept(C_old)
  /\ Lt(Max(C), Max(C_old))

(***************************************************************************)
(* C6.  Mass never grows.                                                  *)
(***************************************************************************)
AbsR(a) == IF Sign(a) < 0 THEN Neg(a) ELSE a
Stable == Le(AbsR(Courant), One) /\ DiffusionStable
MassCase == Stepped /\ NonNegative(C_old) /\ Le(Zero, k) /\ Stable

ReactionStepped == sim = "reaction" /\ Stepped /\ Lt(Zero, k)

\* C7: for k > 0, after n = t reaction steps of size dt every point holds
\* C_0[i]*exp(-k*n*dt), and the field is the one a single step of size n*dt
\* gives.
C7_ReactionExact ==
  ReactionStepped =>
    /\ \A i \in DOMAIN C :
         C[i] = Mul(C_initial[i], Exp(Mul(Mul(Neg(k), R(t, 1)), dt)))
    /\ C = reaction_step(C_initial, k, Mul(R(t, 1), dt))

\* the reaction loop has taken at least two steps on a field that is not zero
C7_Witness ==
  /\ ReactionStepped /\ t >= 2 /\ t = nt
  /\ \E i \in DOMAIN C : C_initial[i] # Zero /\ C[i] # C_old[i]

(***************************************************************************)
(* C8.  What the advection step returns.                                   *)
(***************************************************************************)
\* C8: the advection step returns C_new[i] = C[i] - U*(dt/dx)*(C[i] - C[i-1])
\* for every i from 1 to N-1, from the field before the step, and
\* C_new[0] = C[0].
C8_AdvectionStep ==
  (sim = "advection" /\ Stepped) =>
    /\ DOMAIN C = DOMAIN C_old
    /\ \A i \in 1..Last(C_old) :
         C[i] = Sub(C_old[i], Mul(Mul(U, Div(dt, dx)), Sub(C_old[i], C_old[i-1])))
    /\ C[0] = C_old[0]

\* an advection step has changed the rightmost point of a field
C8_Witness ==
  /\ sim = "advection" /\ Stepped /\ U # Zero
  /\ C[Last(C)] # C_old[Last(C)]
  /\ C[Last(C)] # Zero

(***************************************************************************)
(* C9.  What the diffusion step returns.                                   *)
(***************************************************************************)
\* C9: the diffusion step returns
\* C_new[i] = C[i] + D*(dt/dx^2)*(C[i+1] - 2*C[i] + C[i-1]) for every interior
\* i in 1..N-2, C_new[0] = C[0] + D*(dt/dx^2)*(C[1] - C[0]) and
\* C_new[N-1] = C[N-1] + D*(dt/dx^2)*(C[N-2] - C[N-1]), all from the field
\* before the step.
C9_DiffusionStep ==
  (sim = "diffusion" /\ Stepped) =>
    LET n == len(C_old)
        s == Mul(D, Div(dt, Mul(dx, dx)))
    IN  /\ DOMAIN C = DOMAIN C_old
        /\ \A i \in 1..(n-2) :
             C[i] = Add(C_old[i],
                        Mul(s, Add(Sub(C_old[i+1], Mul(R(2, 1), C_old[i])), C_old[i-1])))
        /\ C[0] = Add(C_old[0], Mul(s, Sub(C_old[1], C_old[0])))
        /\ C[n-1] = Add(C_old[n-1], Mul(s, Sub(C_old[n-2], C_old[n-1])))

\* a diffusion step has changed both end points and an interior point
C9_Witness ==
  /\ sim = "diffusion" /\ Stepped /\ D # Zero
  /\ C[0] # C_old[0]
  /\ C[Last(C)] # C_old[Last(C)]
  /\ \E i \in Interior(C) : C[i] # C_old[i]

(***************************************************************************)
(* C10.  What the combined step returns.                                   *)
(***************************************************************************)
\* C10: the combined step returns, for every interior i in 1..N-2,
\* C_new[i] = C[i] - U*(dt/dx)*(C[i]-C[i-1])
\*            + D*(dt/dx^2)*(C[i+1]-2*C[i]+C[i-1]) - k*dt*C[i],
\* every term from the field before the step, and sets C_new[0] = C[0] and
\* C_new[N-1] = C[N-2], the value before the step.
C10_AdrStep ==
  (sim = "adr" /\ Stepped) =>
    LET n == len(C_old)
    IN  /\ DOMAIN C = DOMAIN C_old
        /\ \A i \in 1..(n-2) :
             C[i] = Sub(Add(Sub(C_old[i],
                                Mul(Mul(U, Div(dt, dx)), Sub(C_old[i], C_old[i-1]))),
                            Mul(Mul(D, Div(dt, Mul(dx, dx))),
                                Add(Sub(C_old[i+1], Mul(R(2, 1), C_old[i])), C_old[i-1]))),
                        Mul(Mul(k, dt), C_old[i]))
        /\ C[0] = C_old[0]
        /\ C[n-1] = C_old[n-2]

\* a combined step with all three processes active has changed an interior
\* point and the outflow point, in a second step (so the field before the
\* step is itself a stepped one)
C10_Witness ==
  /\ sim = "adr" /\ t >= 2
  /\ U # Zero /\ D # Zero /\ k # Zero
  /\ C[Last(C)] # C_old[Last(C)]
  /\ C[Last(C)] # C[Last(C) - 1]
  /\ \E i \in Interior(C) : C[i] # C_old[i]

(***************************************************************************)
(* The stability policy, as stated for the time step:                      *)
(*   dt = safetyFactor * min(dx/|U|, dx^2/(2D)),                           *)
(* a bound counting as infinite when its denominator is zero.              *)
(***************************************************************************)
\* the factor of each dt line, as a fraction of min(dx/|U|, dx^2/(2D)):
\* 0.5 in simulate_advection, 0.25*dx**2/D = 0.5*dx**2/(2D) in
\* simulate_diffusion, 0.25 in simulate_adr
SafetyFactor ==
  CASE sim = "advection" -> R(1, 2)
    [] sim = "diffusion" -> R(1, 2)
    [] OTHER -> R(1, 4)

AdvectiveBound == Div(dx, AbsR(U))
DiffusiveBound == Div(Sq(dx), Mul(Two, D))
\* min of the two bounds, for U and D not both zero
StabilityBound ==
  IF U = Zero THEN DiffusiveBound
  ELSE IF D = Zero THEN AdvectiveBound
  ELSE min(AdvectiveBound, DiffusiveBound)
PolicyDt == Mul(SafetyFactor, StabilityBound)

\* a function that forms dt from U and D, on a valid grid with U and D not
\* both zero
PolicyCase ==
  /\ sim # "reaction"
  /\ Lt(Zero, dx)
  /\ Le(Zero, D)
  /\ U # Zero \/ D # Zero

\* C11: the time step chosen before stepping equals
\* safetyFactor * min(dx/|U|, dx^2/(2D)), the advective bound infinite for
\* U = 0 and the diffusive bound infinite for D = 0, for every U of either
\* sign, D >= 0 and dx > 0 with U and D not both zero.
C11_AsClaimed == PolicyCase => (pc = "loop" /\ dt = PolicyDt)

\* the two inputs of the worked examples
ExampleAdvective == U = One /\ D = Zero /\ dx = R(1, 2)
ExampleDiffusive == U = Zero /\ D = Two /\ dx = R(1, 2)

C13_AsClaimed ==
  /\ pc # "ZeroDivisionError"
  /\ (PolicyCase /\ D = Zero) => dt = Mul(SafetyFactor, AdvectiveBound)
  /\ (PolicyCase /\ U = Zero) => dt = Mul(SafetyFactor, DiffusiveBound)
  /\ (sim # "reaction" /\ U = Zero /\ D = Zero) => pc = "UnderconstrainedTimeStep"

\* C14: a run with L <= 0 or N < 3 is rejected with InvalidDomain and a run
\* with sigma <= 0 with InvalidShapeParameter, at setup: no stepper is
\* called and no field or snapshot is produced.
C14_AsClaimed ==
  pc # "ZeroDivisionError" =>
    /\ (Le(L, Zero) \/ nx < 3) =>
         (pc = "InvalidDomain" /\ t = 0 /\ results = <<>>)
    /\ Le(sigma, Zero) =>
         (pc = "InvalidShapeParameter" /\ t = 0 /\ results = <<>>)

\* the steps 1..j after which a snapshot is due, in ascending order
RECURSIVE SnapshotSteps(_)
SnapshotSteps(j) ==
  IF j = 0 THEN <<>>
  ELSE IF j % stride = 0 \/ j = nt
       THEN Append(SnapshotSteps(j - 1), j)
       ELSE SnapshotSteps(j - 1)

\* the last step was one after which a snapshot is due
SnapshotDue == t >= 1 /\ (t % stride = 0 \/ t = nt)

\* C15: for nt > 0 and stride >= 1 the trajectory starts with the snapshot
\* (t = 0, initial field), contains a snapshot taken after step t exactly
\* when t is a multiple of stride or t = nt, each with the time t*dt and
\* the field after that step, and ends with the snapshot after step nt.
C15_Trajectory ==
  pc = "loop" =>
    LET steps == SnapshotSteps(t)
    IN  /\ Len(results) = 1 + Len(steps)
        /\ Len(times) = 1 + Len(steps)
        /\ results[1] = C_initial
        /\ times[1] = Zero
        /\ \A j \in 1..Len(steps) : times[j + 1] = Mul(R(steps[j], 1), dt)
        /\ SnapshotDue => results[Len(results)] = C
        /\ t = nt =>
             /\ results[Len(results)] = C
             /\ times[Len(times)] = Mul(R(nt, 1), dt)

\* a run has ended after a step that was not sampled (step 1 with stride 2)
\* and a final step that was
C15_Witness ==
  /\ pc = "loop" /\ t = nt /\ nt >= 2 /\ stride = 2
  /\ Len(results) = 1 + (nt \div 2) + (nt % 2)
  /\ results[Len(results)] # results[1]

\* the inputs pass the validation the setup is specified to make
ValidInputs == Lt(Zero, L) /\ nx >= 3 /\ Lt(Zero, sigma)

\* C16: snapshot times are strictly increasing in insertion order at every
\* point of a run, and when nt is a multiple of stride the final step is
\* recorded once, not twice.
C16_AsClaimed ==
  (pc = "loop" /\ ValidInputs) =>
    /\ \A j \in 1..(Len(times) - 1) : Lt(times[j], times[j + 1])
    /\ (t = nt /\ nt % stride = 0) =>
         /\ Len(results) = 1 + (nt \div stride)
         /\ Len(times) = 1 + (nt \div stride)

\* C17: the grid spacing handed to the steppers is dx = L/N, and it equals
\* the distance between consecutive grid points x_i, at which the initial
\* Gaussian is sampled.
C17_AsClaimed ==
  (pc = "loop" /\ ValidInputs) =>
    /\ dx = Div(L, R(nx, 1))
    /\ \A i \in 0..(nx - 2) : Sub(x[i + 1], x[i]) = dx

HalfStable ==
  /\ Lt(Zero, dt)
  /\ Le(Zero, D)
  /\ Le(AbsR(Courant), Half)
  /\ Le(Mul(Two, DiffusionNumber), Half)

AdrStepped == sim = "adr" /\ Stepped

\* C19 as stated: with that dt, U >= 0, D >= 0 and any k >= 0 the combined
\* step maps every non-negative field to a non-negative field.
C19_AsClaimed ==
  (AdrStepped /\ HalfStable /\ Le(Zero, U) /\ Le(Zero, k) /\ NonNegative(C_old)) =>
    NonNegative(C)

\* the weight 1 - U*dt/dx - 2*D*dt/dx^2 - k*dt of C[i] in C_new[i]
CentreWeight == Sub(Sub(Sub(One, Courant), Mul(Two, DiffusionNumber)), Mul(k, dt))

\* C19: with that dt, U >= 0, D >= 0 and k >= 0 the combined step maps
\* every non-negative field to a non-negative field provided
\* k*dt <= 1 - U*dt/dx - 2*D*dt/dx^2 (the explicit reaction term -k*dt*C[i]
\* does bound dt), and then the field is non-negative at every step of a
\* run that starts from a non-negative field.
C19_NonNegative ==
  (sim = "adr" /\ HalfStable /\ Le(Zero, U) /\ Le(Zero, k) /\ Le(Zero, CentreWeight)) =>
    /\ NonNegative(C)
    /\ Stepped => NonNegative(C_old)

\* a combined step with all three processes active and the weight of C[i]
\* exactly zero has been taken from a stepped field
C19_Witness ==
  /\ AdrStepped /\ t >= 2 /\ HalfStable
  /\ Lt(Zero, U) /\ Lt(Zero, D) /\ Lt(Zero, k)
  /\ CentreWeight = Zero
  /\ C # C_old

\* C20: for U < 0 with dt = safetyFactor*dx/|U|, safetyFactor <= 0.5, the
\* advection step and the combined step (its decay within the bound
\* k*dt <= 1 - |U|*dt/dx - 2*D*dt/dx^2) map every non-negative field to a
\* non-negative field whose values do not exceed the input maximum.
C20_AsClaimed ==
  (/\ sim \in {"advection", "adr"} /\ Stepped
   /\ Lt(U, Zero) /\ HalfStable /\ Le(Zero, k)
   /\ Le(Zero, Sub(Sub(Sub(One, AbsR(Courant)), Mul(Two, DiffusionNumber)), Mul(k, dt)))
   /\ NonNegative(C_old)) =>
    /\ NonNegative(C)
    /\ \A i \in DOMAIN C : Le(C[i], Max(C_old))

(***************************************************************************)
(* The stepper of the running simulate_* function, as the loop calls it.   *)
(***************************************************************************)
step(F) ==
  CASE sim = "advection" -> advection_step(F, U, dx, dt)
    [] sim = "diffusion" -> diffusion_step(F, D, dx, dt)
    [] sim = "reaction" -> reaction_step(F, k, dt)
    [] sim = "adr" -> adr_step(F, U, D, k, dx, dt)

\* F with every entry outside i-1, i, i+1 replaced by another value
Perturbed(F, i) ==
  [j \in DOMAIN F |-> IF j \in {i - 1, i, i + 1} THEN F[j] ELSE Mul(Two, F[j])]

\* C21: each of the four steppers returns a new field of the same length N
\* as its input, and entry i of it is computed only from the input's values
\* at i-1, i, i+1 (the values before the step: changing the input anywhere
\* else leaves entry i as it is), so that the result does not depend on the
\* order in which the indices are updated.
C21_Frame ==
  (pc = "loop" /\ Stepped) =>
    /\ DOMAIN C = DOMAIN C_old
    /\ C = step(C_old)
    /\ \A i \in DOMAIN C : step(Perturbed(C_old, i))[i] = C[i]

\* a second combined step, all three processes active, of a field with at
\* least four points that are all non-zero: every entry has a far entry
\* that the perturbation changes, and the step changes the field
C21_Witness ==
  /\ pc = "loop" /\ sim = "adr" /\ t >= 2 /\ nx >= 4
  /\ U # Zero /\ D # Zero /\ k # Zero
  /\ \A j \in DOMAIN C_old : C_old[j] # Zero
  /\ \A i \in Interior(C) : C[i] # C_old[i]

(***************************************************************************)
(* C22.  The closed-form composite of adr_interactive.                     *)
(***************************************************************************)
Plotted == sim = "adr_interactive" /\ pc = "plotted"
\* x = np.linspace(0, L, nx) of adr_interactive
GridX == linspace(Zero, L, len(C))
\* sigma(t) = sqrt(sigma_0^2 + 2*D*t)
SigmaT == sqrt(Add(Sq(sigma), Mul(Mul(Two, D), time)))

\* C22: the closed-form composite is the Gaussian centred at
\* center0 + U*t, of width sigma(t) = sqrt(sigma0^2 + 2*D*t), with amplitude
\* (sigma0/sigma(t))*exp(-k*t); it equals the initial pulse at t = 0, the
\* pure-advection solution when D = 0 and k = 0, the pure-diffusion
\* solution when U = 0 and k = 0, and the pure-reaction solution of the
\* initial pulse when U = 0 and D = 0.
C22_AdrApprox ==
  Plotted =>
    /\ Mul(SigmaT, SigmaT) = Add(Sq(sigma), Mul(Mul(Two, D), time))
    /\ \A i \in DOMAIN C :
         C[i] = Mul(Mul(Div(sigma, SigmaT), Exp(Neg(Mul(k, time)))),
                    Exp(Neg(Div(Sq(Sub(GridX[i], Add(mu_0, Mul(U, time)))),
                                Mul(Two, Sq(SigmaT))))))
    /\ time = Zero => C = C_initial
    /\ (D = Zero /\ k = Zero) => C = advection_C_t(GridX, mu_0, sigma, U, time)
    /\ (U = Zero /\ k = Zero) => C = diffusion_C_t(GridX, mu_0, sigma, D, time)
    /\ (U = Zero /\ D = Zero) => C = reaction_C_t(C_initial, k, time)

\* the composite has been evaluated with all three processes active at a
\* positive time, where it differs from each isolated solution
C22_Witness ==
  /\ Plotted /\ U # Zero /\ D # Zero /\ k # Zero /\ time # Zero
  /\ C # C_initial
  /\ C # advection_C_t(GridX, mu_0, sigma, U, time)
  /\ C # diffusion_C_t(GridX, mu_0, sigma, D, time)
  /\ C # reaction_C_t(C_initial, k, time)

(***************************************************************************)
(* C23.  The peak of an advection run.                                     *)
(***************************************************************************)
\* the indices at which F takes its maximum
ArgMax(F) == {i \in DOMAIN F : F[i] = Max(F)}
\* the distance between consecutive points of x
Spacing == Div(L, R(nx - 1, 1))
\* the initial pulse has a single maximum, away from the inflow point
SinglePeak == Cardinality(ArgMax(C_initial)) = 1 /\ 0 \notin ArgMax(C_initial)
\* the centre of a pulse with a single maximum: the grid point of that maximum
PulseCentre == x[CHOOSE i \in ArgMax(C_initial) : TRUE]
\* centre + U * (t * dt)
ExpectedPeak == Add(PulseCentre, Mul(U, Mul(R(t, 1), dt)))

\* an advection run with U > 0 and the time step of the policy has ended; its
\* pulse had a single maximum away from the inflow point and the expected
\* position of the peak is still in the domain
AdvectionRunEnded ==
  /\ pc = "loop" /\ sim = "advection" /\ ValidInputs /\ Lt(Zero, U)
  /\ t = nt
  /\ SinglePeak
  /\ Le(ExpectedPeak, L)

C24_Inflow ==
  (pc = "loop" /\ sim \in {"advection", "adr"}) =>
    /\ C[0] = C_initial[0]
    /\ C_old[0] = C_initial[0]
    /\ \A j \in 1..Len(results) : results[j][0] = C_initial[0]

\* a run with a velocity has ended with a non-zero inflow value kept, while
\* the point next to it has changed in the last step and since the start
C24_Witness ==
  /\ pc = "loop" /\ sim \in {"advection", "adr"} /\ t = nt /\ t >= 2
  /\ U # Zero
  /\ C[0] # Zero
  /\ C[1] # C_initial[1]
  /\ C[1] # C_old[1]

\* C25: the field returned by the combined step has zero gradient at the
\* outflow boundary: its last two entries are equal, C_new[N-1] = C_new[N-2],
\* after every step.
C25_AsClaimed ==
  (pc = "loop" /\ sim = "adr" /\ Stepped) => C[Last(C)] = C[Last(C) - 1]

(***************************************************************************)
(* C26.  The time loop as a chain of stepper calls.                        *)
(***************************************************************************)
\* the stepper applied j times to F
RECURSIVE StepN(_, _)
StepN(F, j) ==
  IF j = 0 THEN F
  ELSE LET G == StepN(F, j - 1)
       IN  step(G)

\* after t calls the field is the stepper applied t times to the copy of
\* the initial field, the last call got the field of the call before, and
\* the field of the finished loop is the last one handed back
ChainState ==
  pc = "loop" =>
    /\ t \in 0..nt
    /\ C = StepN(C_initial, t)
    /\ t >= 1 => C_old = StepN(C_initial, t - 1)
    /\ t = nt => results[Len(results)] = StepN(C_initial, nt)

\* one pass of the loop: taken only while t < nt, it counts one call, whose
\* argument is the field of the pass before and whose result is the next field
ChainStep ==
  /\ t < nt
  /\ t' = t + 1
  /\ nt' = nt
  /\ C_old' = C
  /\ C' = step(C)

\* C26: the time loop is a strict sequential chain that terminates: for
\* every nt > 0 it calls the stepper exactly nt times, call t getting
\* exactly the field returned by call t-1 (the copy of the initial field
\* for t = 1), and the loop ends with the field after nt steps.  Every pass
\* raises the counter t by one towards the fixed bound nt and none is taken
\* at t = nt, so no run has more than nt passes.
C26_Chain == []ChainState /\ [][ChainStep]_vars

\* a loop of at least two steps has ended, each step having changed the field
C26_Witness ==
  /\ pc = "loop" /\ t = nt /\ nt >= 2
  /\ C # C_old
  /\ C_old # C_initial

(***************************************************************************)
(* C27, C28.  Discrete maximum principle of the isolated steps.            *)
(***************************************************************************)
RECURSIVE MinTo(_, _)
MinTo(F, i) ==
  IF i = 0 THEN F[0]
  ELSE LET m == MinTo(F, i - 1) IN IF Le(m, F[i]) THEN m ELSE F[i]
\* min(C)
Min(F) == MinTo(F, Last(F))

\* every entry of G lies between the smallest and the largest entry of F
Between(G, F) == \A i \in DOMAIN G : Le(Min(F), G[i]) /\ Le(G[i], Max(F))

CourantStable == Le(Zero, Courant) /\ Le(Courant, One)

\* C27: whenever 0 <= U*dt/dx <= 1, every entry of the field returned by
\* the advection step lies between the minimum and the maximum of the field
\* it was given; so over any number of steps a non-negative field stays
\* non-negative and max(C) never grows.
C27_AdvectionMaxPrinciple ==
  (sim = "advection" /\ Stepped /\ CourantStable) =>
    /\ Between(C, C_old)
    /\ NonNegative(C_initial) => NonNegative(C)
    /\ Le(Max(C), Max(C_old)) /\ Le(Max(C), Max(C_initial))

\* the advection loop has ended on a field that two steps with 0 < U*dt/dx < 1
\* have changed, the second one to values strictly inside the range of its input
C27_Witness ==
  /\ sim = "advection" /\ t = nt /\ nt >= 2
  /\ Lt(Zero, Courant) /\ Lt(Courant, One)
  /\ C_old # C_initial
  /\ \E i \in Interior(C) : Lt(Min(C_old), C[i]) /\ Lt(C[i], Max(C_old))

\* C28: whenever 0 <= D*dt/dx^2 <= 0.5, every entry of the field returned
\* by the diffusion step, the two boundary entries included, lies between
\* the minimum and the maximum of the field it was given; so over any number
\* of steps a non-negative field stays non-negative and min(C) never
\* decreases.
C28_DiffusionMaxPrinciple ==
  (sim = "diffusion" /\ Stepped /\ DiffusionStable) =>
    /\ Between(C, C_old)
    /\ NonNegative(C_initial) => NonNegative(C)
    /\ Le(Min(C_old), Min(C)) /\ Le(Min(C_initial), Min(C))

\* the diffusion loop has ended on a field that two steps with
\* 0 < D*dt/dx^2 <= 0.5 have changed, the second one at both boundary points
C28_Witness ==
  /\ sim = "diffusion" /\ t = nt /\ nt >= 2
  /\ Lt(Zero, DiffusionNumber) /\ DiffusionStable
  /\ C_old # C_initial
  /\ C[0] # C_old[0] /\ C[Last(C)] # C_old[Last(C)]
  /\ Lt(Min(C_old), C[0]) /\ Lt(C[Last(C)], Max(C_old))

(***************************************************************************)
(* C29, C30.  The two snapshot lists.                                      *)
(***************************************************************************)
\* C29: the list of snapshot fields and the list of snapshot times have the
\* same length throughout the loop, and when the loop has ended that length
\* is 1 + floor(nt/stride), plus 1 if nt is not a multiple of stride.
C29_SnapshotCount ==
  pc = "loop" =>
    /\ Len(results) = Len(times)
    /\ t = nt =>
         Len(results) = 1 + (nt \div stride) + (IF nt % stride # 0 THEN 1 ELSE 0)

\* a loop has ended whose last step is not a multiple of the stride: the
\* final snapshot is the extra one
C29_Witness ==
  /\ pc = "loop" /\ t = nt /\ nt % stride # 0
  /\ Len(results) = 2 + (nt \div stride)
  /\ Len(times) = Len(results)

\* every snapshot taken so far holds, with the time j*dt, the stepper
\* applied j times to the initial field
SnapshotsExact ==
  pc = "loop" =>
    LET steps == SnapshotSteps(t)
    IN  /\ Len(results) = 1 + Len(steps) /\ Len(times) = 1 + Len(steps)
        /\ results[1] = C_initial /\ times[1] = Zero
        /\ \A j \in 1..Len(steps) :
             /\ times[j + 1] = Mul(R(steps[j], 1), dt)
             /\ results[j + 1] = StepN(C_initial, steps[j])

\* a step leaves the initial field and every snapshot already taken as they are
SnapshotsKept ==
  /\ C_initial' = C_initial
  /\ \A j \in 1..Len(results) : results'[j] = results[j] /\ times'[j] = times[j]

\* C30: the snapshot recorded with time t*dt holds exactly the stepper
\* applied t times to the initial field, and neither that snapshot nor the
\* initial field is changed by any later step.
C30_Snapshots == []SnapshotsExact /\ [][SnapshotsKept]_vars

\* a snapshot taken after the first step and the initial field are still
\* there after a later step that changed the current field
C30_Witness ==
  /\ pc = "loop" /\ t >= 2 /\ stride = 1
  /\ Len(results) = t + 1
  /\ results[2] = StepN(C_initial, 1)
  /\ results[2] # C_initial /\ C # results[2]

====
